---- MODULE Spec2Model ----
(***************************************************************************)
(* Model of pymuscle/muscle.py: the Muscle orchestrator, which binds a     *)
(* motor neuron pool model to a muscle fibers model, and its two preset    *)
(* subclasses PotvinFuglevandMuscle and StandardMuscle.                    *)
(*                                                                         *)
(* Units.  Reals are scaled to integers:                                   *)
(*   max_force                in tenths of a newton      (60.0  -> 600)    *)
(*   force_conversion_factor  in thousandths             (0.028 -> 28)     *)
(*   the constant 17.66       in hundredths              (17.66 -> 1766)   *)
(*   excitation, activation, force and step_size are small naturals.       *)
(*                                                                         *)
(* The pool and fibers classes are imported by muscle.py (lines 8-11) but  *)
(* their code is not part of the file; PoolStep, FibersStep and NewModel   *)
(* model the collaborator contract.                                        *)
(***************************************************************************)
EXTENDS Integers, Sequences, FiniteSets, TLC

\* ------------------------------------------------------------------ bounds
\* Largest motor_unit_count given directly to a collaborator.
MaxUnits == 2
\* Number of step calls on one muscle.
MaxSteps == 2
\* Largest max_force (tenths of a newton) a stepped StandardMuscle is built with.
MaxSmallForce == 5
\* How far past the documented example the derivation's max_force inputs go.
ForceMargin == 100

\* ------------------------------------------------------- program constants
\* 17.66, in hundredths (muscle.py line 172).
TwitchAverage == 1766
\* Default force_conversion_factor 0.028, in thousandths (muscle.py line 158).
DefaultForceConversionFactor == 28
\* The docstring's example max_force 500, in tenths (muscle.py line 153).
DocMaxForce == 5000

\* ------------------------------------------------------------------ inputs
Excitations == {0, 1}
StepSizes == {1, 2}
DTypes == {"float", "int"}
\* Which collaborator, if any, fails on an input it would otherwise accept.
Faults == {"none", "fibers"}

RECURSIVE SeqsOfLen(_)
SeqsOfLen(n) ==
    IF n = 0 THEN {<<>>}
    ELSE {Append(s, v) : s \in SeqsOfLen(n - 1), v \in Excitations}

\* A Python float or int (muscle.py line 63: Union[float, np.ndarray]).
Scalar(t, v) == [kind |-> t, dtype |-> t, value |-> v]
\* A numpy array of the given element type.
NdArray(t, s) == [kind |-> "ndarray", dtype |-> t, value |-> s]

ScalarInputs == {Scalar(t, v) : t \in DTypes, v \in Excitations}
\* Arrays of every length up to the largest count: shorter than, as long as,
\* and (for all but the largest muscle) longer than the muscle's count.
ArrayInputs ==
    {NdArray("float", s) : s \in UNION {SeqsOfLen(n) : n \in 0..MaxUnits}}
StepInputs == ScalarInputs \cup ArrayInputs

ForceConversionFactors ==
    {DefaultForceConversionFactor, 2 * DefaultForceConversionFactor}
\* <<max_force, force_conversion_factor>> of the muscles that are stepped.
SmallStandardInputs ==
    {<<mf, DefaultForceConversionFactor>> : mf \in 1..MaxSmallForce}
\* <<max_force, force_conversion_factor>> the derivation is checked on: every
\* max_force from 0.1 N past the documented 500 N, under either factor.
AllStandardInputs ==
    {<<mf, fcf>> : mf \in 1..(DocMaxForce + ForceMargin),
                   fcf \in ForceConversionFactors}

VARIABLES
    muscle,                   \* "none" or the class of the constructed muscle
    max_force,                \* StandardMuscle.max_force (0 when not set)
    force_conversion_factor,  \* StandardMuscle.force_conversion_factor
    pool,                     \* self._pool: the motor neuron pool model
    fibers,                   \* self._fibers: the muscle fibers model
    built,                    \* the pool's motor_unit_count at construction
    op,                       \* the last operation the caller invoked
    result,                   \* what that operation returned or raised
    lastStep,                 \* record of the most recent step call
    nsteps                    \* number of step calls made

vars == <<muscle, max_force, force_conversion_factor, pool, fibers, built,
          op, result, lastStep, nsteps>>

\* ------------------------------------------------- collaborators (contract)
\* A freshly constructed collaborator with n motor units, at rest.  Pool and
\* fibers are both Models (muscle.py line 11); one record shape serves both.
NewModel(n) ==
    [motor_unit_count |-> n, fatigue |-> 0, current_forces |-> 0]

\* s[lo] + ... + s[hi], by halves.
RECURSIVE SumRange(_, _, _)
SumRange(s, lo, hi) ==
    IF lo > hi THEN 0
    ELSE IF lo = hi THEN s[lo]
    ELSE LET mid == (lo + hi) \div 2
         IN SumRange(s, lo, mid) + SumRange(s, mid + 1, hi)

\* pool.step(motor_pool_input, step_size): raises on an input that is not an
\* array of motor_unit_count values, else returns the activation vector and
\* advances its central fatigue by step_size.
PoolStep(p, args) ==
    LET in == args.motor_pool_input
        dt == args.step_size
    IN IF in.kind # "ndarray" \/ Len(in.value) # p.motor_unit_count
       THEN [raised |-> TRUE, error |-> "PoolError", model |-> p, ret |-> <<>>]
       ELSE [raised |-> FALSE, error |-> "",
             model  |-> [p EXCEPT !.fatigue = @ + dt],
             ret    |-> [i \in 1..p.motor_unit_count |->
                           IF in.value[i] + dt > p.fatigue
                           THEN in.value[i] + dt - p.fatigue ELSE 0]]

\* fibers.step(motor_pool_output): raises on its own fault, else sums the
\* per-unit contributions less its peripheral fatigue, caches the force as
\* current_forces and returns it.
FibersStep(f, args, fault) ==
    IF fault = "fibers"
    THEN [raised |-> TRUE, error |-> "FibersError", model |-> f, ret |-> 0]
    ELSE LET act == args.motor_pool_output
             total == SumRange(act, 1, Len(act))
             force == IF total > f.fatigue THEN total - f.fatigue ELSE 0
         IN [raised |-> FALSE, error |-> "",
             model  |-> [f EXCEPT !.fatigue = @ + 1,
                                  !.current_forces = force],
             ret    |-> force]

\* ------------------------------------------------------------------ Muscle
Returned(v) == [kind |-> "return", value |-> v, error |-> ""]
Raised(e) == [kind |-> "raise", value |-> 0, error |-> e]
NoResult == [kind |-> "none", value |-> 0, error |-> ""]

NoStep ==
    [input |-> Scalar("float", 0), step_size |-> 0, fault |-> "none",
     calls |-> <<>>, outcome |-> NoResult]

\* Mutant: the assertion written with <= for ==.
CountsAtMost(p, f) == p.motor_unit_count <= f.motor_unit_count

\* Mutant: the assertion left out.
CountsUnchecked(p, f) == TRUE

\* Muscle.__init__'s assertion.
CountsAgree(p, f) == p.motor_unit_count = f.motor_unit_count

\* Muscle.motor_unit_count
motor_unit_count(p, f) == p.motor_unit_count

\* Mutant: the accessor reads the pool instead of the fibers.
current_forces_of_pool(p, f) == p.current_forces

\* Muscle.current_forces
current_forces(p, f) == f.current_forces

\* Mutant: only a float is expanded, an int is passed on as it is.
NormalizeFloatOnly(p, in) ==
    IF in.kind = "float"
    THEN NdArray(in.dtype, [i \in 1..p.motor_unit_count |-> in.value])
    ELSE in

\* Mutant: an array of another length is cut or zero-padded to the count.
NormalizeResized(p, in) ==
    IF in.kind = "float" \/ in.kind = "int"
    THEN NdArray(in.dtype, [i \in 1..p.motor_unit_count |-> in.value])
    ELSE NdArray(in.dtype, [i \in 1..p.motor_unit_count |->
                              IF i <= Len(in.value) THEN in.value[i] ELSE 0])

\* np.full(self._pool.motor_unit_count, motor_pool_input) for a float or an
\* int; any other input is left as it is.
NormalizeInput(p, in) ==
    IF in.kind = "float" \/ in.kind = "int"
    THEN NdArray(in.dtype, [i \in 1..p.motor_unit_count |-> in.value])
    ELSE in

\* self._pool.step(motor_pool_input, step_size): the arguments of the call.
PoolArgs(motor_pool_input, step_size) ==
    [motor_pool_input |-> motor_pool_input, step_size |-> step_size]

\* Mutant: the fibers are handed the pool's input instead of its output.
FibersArgsFromInput(motor_pool_input, motor_pool_output, step_size) ==
    [motor_pool_output |-> motor_pool_input.value]

\* self._fibers.step(motor_pool_output): the arguments of the call.
FibersArgs(motor_pool_input, motor_pool_output, step_size) ==
    [motor_pool_output |-> motor_pool_output]

\* Mutant: a collaborator's error is caught and replaced by the muscle's own.
Wrapped(e) == Raised("MuscleError")

\* An exception raised inside step leaves it as it is: no try, no except.
Propagated(e) == Raised(e)

\* Muscle.step: the collaborators after the call, the collaborator calls it
\* made in order, and what reaches the caller.
MuscleStep(p, f, in, dt, fault) ==
    LET motor_pool_input == NormalizeInput(p, in)
        pargs == PoolArgs(motor_pool_input, dt)
        pr == PoolStep(p, pargs)
        poolCall == [callee |-> "pool", args |-> pargs, raised |-> pr.raised,
                     error |-> pr.error, ret |-> pr.ret]
    IN IF pr.raised
       THEN [pool |-> pr.model, fibers |-> f, calls |-> <<poolCall>>,
             outcome |-> Propagated(pr.error)]
       ELSE LET fargs == FibersArgs(motor_pool_input, pr.ret, dt)
                fr == FibersStep(f, fargs, fault)
                fibersCall == [callee |-> "fibers", args |-> fargs,
                               raised |-> fr.raised, error |-> fr.error,
                               ret |-> fr.ret]
            IN [pool |-> pr.model, fibers |-> fr.model,
                calls |-> <<poolCall, fibersCall>>,
                outcome |-> IF fr.raised THEN Propagated(fr.error)
                            ELSE Returned(fr.ret)]

\* Mutant: the quotient is rounded to the nearest integer.
RoundDiv(a, b) == (2 * a + b) \div (2 * b)

\* int(a / b) for a >= 0, b > 0: truncation.
TruncDiv(a, b) == a \div b

\* motor_unit_count = int(max_force / (force_conversion_factor * 17.66))
\* max_force/10 over (fcf/1000 * 1766/100) is max_force*10000 over fcf*1766.
DeriveMotorUnitCount(mf, fcf) == TruncDiv(mf * 10000, fcf * TwitchAverage)

\* ----------------------------------------------------------------- actions
Init ==
    /\ muscle = "none"
    /\ max_force = 0
    /\ force_conversion_factor = 0
    /\ pool = NewModel(0)
    /\ fibers = NewModel(0)
    /\ built = 0
    /\ op = "none"
    /\ result = NoResult
    /\ lastStep = NoStep
    /\ nsteps = 0

\* Muscle.__init__ on the two collaborators p and f, for an instance of class cls.
MuscleInit(cls, p, f) ==
    /\ pool' = p
    /\ fibers' = f
    /\ IF CountsAgree(p, f)
       THEN /\ muscle' = cls
            /\ built' = p.motor_unit_count
            /\ result' = Returned(0)
       ELSE /\ muscle' = "none"
            /\ built' = 0
            /\ result' = Raised("AssertionError")
    /\ UNCHANGED <<lastStep, nsteps>>

\* Muscle(Pool(pn), Fibers(fn))
ConstructMuscle ==
    /\ op = "none"
    /\ \E pn \in 1..MaxUnits, fn \in 1..MaxUnits :
          MuscleInit("Muscle", NewModel(pn), NewModel(fn))
    /\ op' = "Muscle"
    /\ UNCHANGED <<max_force, force_conversion_factor>>

\* PotvinFuglevandMuscle(motor_unit_count)
ConstructPotvinFuglevandMuscle ==
    /\ op = "none"
    /\ \E n \in 1..MaxUnits :
          MuscleInit("PotvinFuglevandMuscle", NewModel(n), NewModel(n))
    /\ op' = "PotvinFuglevandMuscle"
    /\ UNCHANGED <<max_force, force_conversion_factor>>

\* StandardMuscle.__init__(max_force, force_conversion_factor)
StandardMuscleInit(mf, fcf) ==
    LET n == DeriveMotorUnitCount(mf, fcf)
    IN /\ max_force' = mf
       /\ force_conversion_factor' = fcf
       /\ MuscleInit("StandardMuscle", NewModel(n), NewModel(n))
       /\ op' = "StandardMuscle"

\* StandardMuscle(max_force, force_conversion_factor), to be stepped.
ConstructStandardMuscle ==
    /\ op = "none"
    /\ \E in \in SmallStandardInputs : StandardMuscleInit(in[1], in[2])

\* StandardMuscle(max_force, force_conversion_factor), any configuration.
ConstructAnyStandardMuscle ==
    /\ op = "none"
    /\ \E in \in AllStandardInputs : StandardMuscleInit(in[1], in[2])

\* muscle.step(motor_pool_input, step_size)
Step ==
    /\ muscle # "none"
    /\ nsteps < MaxSteps
    /\ \E in \in StepInputs, dt \in StepSizes, fault \in Faults :
          LET r == MuscleStep(pool, fibers, in, dt, fault)
          IN /\ pool' = r.pool
             /\ fibers' = r.fibers
             /\ result' = r.outcome
             /\ lastStep' = [input |-> in, step_size |-> dt, fault |-> fault,
                             calls |-> r.calls, outcome |-> r.outcome]
    /\ op' = "step"
    /\ nsteps' = nsteps + 1
    /\ UNCHANGED <<muscle, max_force, force_conversion_factor, built>>

\* muscle.current_forces
ReadCurrentForces ==
    /\ muscle # "none"
    /\ op' = "current_forces"
    /\ result' = Returned(current_forces(pool, fibers))
    /\ UNCHANGED <<muscle, max_force, force_conversion_factor, pool, fibers,
                   built, lastStep, nsteps>>

\* muscle.motor_unit_count
ReadMotorUnitCount ==
    /\ muscle # "none"
    /\ op' = "motor_unit_count"
    /\ result' = Returned(motor_unit_count(pool, fibers))
    /\ UNCHANGED <<muscle, max_force, force_conversion_factor, pool, fibers,
                   built, lastStep, nsteps>>

Next ==
    \/ ConstructMuscle
    \/ ConstructPotvinFuglevandMuscle
    \/ ConstructStandardMuscle
    \/ Step
    \/ ReadCurrentForces
    \/ ReadMotorUnitCount

Spec == Init /\ [][Next]_vars

\* The force-oriented preset alone: construction over the whole input range,
\* then the accessors.
NextPreset ==
    \/ ConstructAnyStandardMuscle
    \/ ReadCurrentForces
    \/ ReadMotorUnitCount

SpecPreset == Init /\ [][NextPreset]_vars

\* ------------------------------------------------------------------ claims
IsScalarInput(in) == in.kind = "float" \/ in.kind = "int"

\* What the pool is to be handed for the caller's input in: n copies of a
\* scalar, an array as the caller gave it.
Expected(in, n) ==
    IF IsScalarInput(in) THEN NdArray(in.dtype, [i \in 1..n |-> in.value])
    ELSE in

\* C1: composing a pool and a fibers model that report the same positive
\* motor_unit_count yields a Muscle; composing two that report different
\* counts raises the construction error and yields no Muscle.
C1_ConstructionChecksCounts ==
    op = "Muscle" =>
       /\ (pool.motor_unit_count = fibers.motor_unit_count
           /\ pool.motor_unit_count >= 1)
          => (muscle = "Muscle" /\ result.kind = "return")
       /\ pool.motor_unit_count # fibers.motor_unit_count
          => (muscle = "none" /\ result = Raised("AssertionError"))

C1_Witness ==
    /\ op = "Muscle"
    /\ pool.motor_unit_count # fibers.motor_unit_count
    /\ muscle = "none"
    /\ result.error = "AssertionError"

C3_CurrentForcesIsLastForce ==
    [][op' = "current_forces" =>
         /\ UNCHANGED <<muscle, pool, fibers, built, lastStep, nsteps>>
         /\ lastStep.outcome.kind = "return"
            => result' = Returned(lastStep.outcome.value)]_vars

C3_Witness ==
    /\ op = "current_forces"
    /\ nsteps >= 2
    /\ lastStep.outcome.kind = "return"
    /\ result.value = lastStep.outcome.value
    /\ result.value > 0

\* C4: in a successful step the pool is called first, with the normalized
\* input and the step size; the fibers are called second, with the activation
\* vector that pool call returned; the step returns what the fibers returned;
\* each collaborator is called once.
C4_PoolThenFibers ==
    lastStep.outcome.kind = "return" =>
       LET c == lastStep.calls
       IN /\ Len(c) = 2
          /\ c[1].callee = "pool"
          /\ ~c[1].raised
          /\ c[1].args.motor_pool_input = Expected(lastStep.input, built)
          /\ c[1].args.step_size = lastStep.step_size
          /\ c[2].callee = "fibers"
          /\ ~c[2].raised
          /\ c[2].args.motor_pool_output = c[1].ret
          /\ lastStep.outcome.value = c[2].ret

C4_Witness ==
    /\ op = "step"
    /\ nsteps >= 2
    /\ lastStep.outcome.kind = "return"
    /\ lastStep.input.kind = "ndarray"
    /\ Len(lastStep.calls) = 2
    /\ lastStep.calls[2].args.motor_pool_output # lastStep.input.value

\* C5: in a successful step the caller's step_size is an argument of the
\* pool's step and of the fibers' step, as given.
C5_StepSizeToBoth ==
    lastStep.outcome.kind = "return" =>
       \A i \in 1..Len(lastStep.calls) :
          /\ "step_size" \in DOMAIN lastStep.calls[i].args
          /\ lastStep.calls[i].args.step_size = lastStep.step_size

\* C6 as claimed: a step either returns a force after both collaborator steps
\* completed, or raises a collaborator's error with no collaborator advanced;
\* when the pool raises, the fibers are not called and stay as they were.
C6_FailedStepAdvancesNothing ==
    [][op' = "step" =>
         LET c == lastStep'.calls
         IN \/ /\ result'.kind = "return"
               /\ Len(c) = 2
               /\ ~c[1].raised /\ ~c[2].raised
            \/ /\ result'.kind = "raise"
               /\ result'.error = c[Len(c)].error
               /\ c[1].raised => Len(c) = 1
               /\ pool' = pool
               /\ fibers' = fibers]_vars

\* C6 as amended: a step either returns a force after both collaborator steps
\* completed, once each, or raises, unchanged, the error of the collaborator
\* call that failed, which is the last call made.  When the pool raises, the
\* fibers are not called and stay as they were.  When the fibers raise, the
\* pool's step has completed and the pool stays advanced.
C6_FailedStepKeepsPoolAdvance ==
    [][op' = "step" =>
         LET c == lastStep'.calls
         IN \/ /\ result'.kind = "return"
               /\ Len(c) = 2
               /\ ~c[1].raised /\ ~c[2].raised
            \/ /\ result'.kind = "raise"
               /\ Len(c) = 1
               /\ c[1].callee = "pool" /\ c[1].raised
               /\ result' = Raised(c[1].error)
               /\ fibers' = fibers
            \/ /\ result'.kind = "raise"
               /\ Len(c) = 2
               /\ c[1].callee = "pool" /\ ~c[1].raised
               /\ c[2].callee = "fibers" /\ c[2].raised
               /\ result' = Raised(c[2].error)
               /\ pool' = PoolStep(pool, c[1].args).model
               /\ pool' # pool]_vars

C6_Witness ==
    /\ op = "step"
    /\ result.kind = "raise"
    /\ Len(lastStep.calls) = 2
    /\ lastStep.calls[2].raised
    /\ pool.fatigue > 0

\* C7: an array whose length differs from motor_unit_count reaches the pool
\* as the caller gave it, and the step raises the pool's error instead of
\* returning a force; the fibers are not called.
C7_MismatchedArrayRaises ==
    (/\ lastStep.outcome.kind # "none"
     /\ lastStep.input.kind = "ndarray"
     /\ Len(lastStep.input.value) # built) =>
       /\ Len(lastStep.calls) = 1
       /\ lastStep.calls[1].args.motor_pool_input = lastStep.input
       /\ lastStep.outcome.kind = "raise"
       /\ lastStep.outcome.error = lastStep.calls[1].error

C7_Witness ==
    /\ op = "step"
    /\ built >= 1
    /\ lastStep.input.kind = "ndarray"
    /\ lastStep.input.value = <<>>
    /\ result.kind = "raise"

\* C8: a StandardMuscle's unit count n is the quotient of max_force by
\* force_conversion_factor * 17.66 cut to an integer
\* (n * d <= max_force < (n + 1) * d for d = force_conversion_factor * 17.66),
\* both collaborators are built with n, and max_force 500 with factor 0.028
\* gives n = 1011.
C8_CountIsTruncatedQuotient ==
    muscle = "StandardMuscle" =>
       LET n == pool.motor_unit_count
           num == max_force * 10000
           den == force_conversion_factor * TwitchAverage
       IN /\ n * den <= num
          /\ num < (n + 1) * den
          /\ fibers.motor_unit_count = n
          /\ (max_force = DocMaxForce
              /\ force_conversion_factor = DefaultForceConversionFactor)
             => n = 1011

C8_Witness ==
    /\ muscle = "StandardMuscle"
    /\ max_force = DocMaxForce
    /\ force_conversion_factor = DefaultForceConversionFactor
    /\ pool.motor_unit_count = 1011
    /\ fibers.motor_unit_count = 1011

\* C9: once a muscle is constructed, the pool's and the fibers' unit counts
\* are equal and are the count fixed at construction, the motor_unit_count
\* accessor returns that count, and a step never raises the construction
\* error.
C9_CountsStayEqual ==
    muscle # "none" =>
       /\ pool.motor_unit_count = fibers.motor_unit_count
       /\ pool.motor_unit_count = built
       /\ op = "motor_unit_count" => result = Returned(built)
       /\ lastStep.outcome.kind = "raise"
          => lastStep.outcome.error \in {"PoolError", "FibersError"}

C9_Witness ==
    /\ op = "motor_unit_count"
    /\ nsteps >= 2
    /\ lastStep.outcome.kind = "raise"
    /\ result.value = built
    /\ built >= 1

\* C10: the unit count a StandardMuscle derives from a positive max_force and
\* a positive force_conversion_factor, and builds its collaborators with, is
\* at least 1.
C10_DerivedCountIsPositive ==
    (op = "StandardMuscle" /\ max_force > 0 /\ force_conversion_factor > 0) =>
       /\ pool.motor_unit_count >= 1
       /\ fibers.motor_unit_count >= 1

====
